---- MODULE Spec2Model ----
(***************************************************************************)
(* Model of the medical-intake interview pipeline                           *)
(* (backend/app/services/agent): the LangGraph stage graph of graph.py,     *)
(* the chat_stream driver of __init__.py and the session store of           *)
(* session_manager.py, for one session id.                                  *)
(*                                                                          *)
(* Python values are represented as follows.                                *)
(*   None / Optional[x]   the empty sequence <<>> / the one-element <<x>>   *)
(*   dict (ordered)       a sequence of <<key, value>> pairs, unique keys   *)
(*   list                 a sequence                                        *)
(*   str built by +=      a sequence of text parts ("" is <<>>)             *)
(*   LangChain message    [cls, content, additional_kwargs]                 *)
(*   pydantic object      a record of its fields                            *)
(* A provider (LLM / classifier) call is a nondeterministic choice of its   *)
(* outcome: a failure, or a response that passed schema validation.         *)
(*                                                                          *)
(* A behaviour follows one chat_stream call, stage by stage, on the session *)
(* that a sequence of earlier calls (Pasts) left in the store.              *)
(***************************************************************************)
EXTENDS Naturals, Integers, Sequences, FiniteSets, TLC

VARIABLES
    db,        \* the user_sessions row of the session: <<>> or <<[user_id, session_data]>>
    files,     \* image paths that exist on disk
    st,        \* the GraphState of the run in progress (or of the last run)
    pc,        \* position of chat_stream / of the graph
    events,    \* events yielded by the current run, in order
    loc,       \* locals of the stage in progress (process_question_list_node)
    hist,      \* observations of the current run (history only, never read by the code)
    rival      \* a second chat_stream call on the same session id

vars == <<db, files, st, pc, events, loc, hist, rival>>

----------------------------------------------------------------------------
(* Bounds of the model *)

\* length of the evidence_list the extraction provider returns
MaxEvLen == 2
\* length of the questions list the information-seek provider returns
MaxQuestions == 6
\* consecutive failures of the reconciliation oracle on one question
MaxOracleFails == 2
\* disease_suggestion_node calls per run the model follows (above the code's cap)
MaxSuggestCalls == 12
\* calls of a loop whose suggestion takes any of the Probabilities; the later
\* ones take the two around the threshold
MaxVaried == 2

(* Program constants *)

\* graph.py:462   len(state["disease_buffer"]) > 10
BufferCap == 10
\* graph.py:462   match_probability < 65
MinProbability == 65
\* graph.py:516   state['question_count'] > 20
FatigueLimit == 20
\* graph.py:530   response.questions[:5]
QuestionTrim == 5
\* models.py:14   ge=0, le=100
MaxProbability == 100

----------------------------------------------------------------------------
(* Generic helpers *)

None == <<>>
Some(x) == <<x>>
IsNone(o) == o = <<>>
IsSome(o) == o # <<>>
The(o) == o[1]

Last(s) == s[Len(s)]
Front(s) == SubSeq(s, 1, Len(s) - 1)
Take(s, n) == SubSeq(s, 1, IF n < Len(s) THEN n ELSE Len(s))
Range(s) == {s[i] : i \in 1..Len(s)}

RECURSIVE SeqsUpTo(_, _)
\* all sequences over S of length at most n
SeqsUpTo(S, n) ==
    IF n = 0 THEN {<<>>}
    ELSE LET shorter == SeqsUpTo(S, n - 1)
         IN shorter \cup {Append(s, x) : s \in {t \in shorter : Len(t) = n - 1}, x \in S}

(* Python dict: insertion-ordered, unique keys *)
DictKeys(d) == [i \in 1..Len(d) |-> d[i][1]]
DictHas(d, k) == \E i \in 1..Len(d) : d[i][1] = k
DictGet(d, k) == d[CHOOSE i \in 1..Len(d) : d[i][1] = k][2]
\* d[k] = v
DictSet(d, k, v) ==
    IF DictHas(d, k)
    THEN [i \in 1..Len(d) |-> IF d[i][1] = k THEN <<k, v>> ELSE d[i]]
    ELSE Append(d, <<k, v>>)
\* del d[k]
DictDel(d, k) == SelectSeq(d, LAMBDA e : e[1] # k)

----------------------------------------------------------------------------
(* Session state model: models.py *)

\* models.py:11-14  class Disease
Disease(name, reason, probability) ==
    [disease_name |-> name, match_reason |-> reason, match_probability |-> probability]

\* models.py:27-36  MedicalReport() with its default factories
MedicalReport ==
    [evidences |-> <<>>, images |-> <<>>, images_analyses |-> <<>>,
     medai_raw |-> <<>>, summary |-> "", most_likely_disease |-> <<>>]

\* models.py:125-126  class InformationSeek
InformationSeek(qs) == [questions |-> qs]

HumanMessage(c) == [cls |-> "HumanMessage", content |-> c, additional_kwargs |-> <<>>]
AIMessage(c, kwargs) == [cls |-> "AIMessage", content |-> c, additional_kwargs |-> kwargs]

\* session_manager.py:142-150  the state get_session returns for a new session
FreshState ==
    [messages |-> <<>>,
     new_user_message |-> None,
     medical_report |-> MedicalReport,
     report_updated |-> FALSE,
     disease_buffer |-> <<>>,
     information_seek |-> None,
     question_count |-> 0]

----------------------------------------------------------------------------
(* Session store: session_manager.py.  A stored blob is [json, data]: json  *)
(* says whether the text is well-formed JSON, data is the document.         *)

\* session_manager.py:19-36  _serialize_message
SerializeMessage(m) ==
    [type |-> CASE m.cls = "HumanMessage" -> "human"
                [] m.cls = "AIMessage" -> "ai"
                [] m.cls = "SystemMessage" -> "system"
                [] OTHER -> "unknown",
     content |-> m.content,
     kwargs |-> m.additional_kwargs]

\* variant: every stored message is read back as a user turn
DeserializeAsHuman(d) ==
    [cls |-> "HumanMessage", content |-> d.content, additional_kwargs |-> d.kwargs]

\* session_manager.py:38-49  _deserialize_message
DeserializeMessage(d) ==
    [cls |-> CASE d.type = "human" -> "HumanMessage"
               [] d.type = "ai" -> "AIMessage"
               [] d.type = "system" -> "SystemMessage"
               [] OTHER -> "HumanMessage",
     content |-> d.content,
     additional_kwargs |-> d.kwargs]

\* pydantic model_dump() of a Disease: a JSON object
DiseaseDump(d) ==
    << <<"disease_name", d.disease_name>>,
       <<"match_reason", d.match_reason>>,
       <<"match_probability", d.match_probability>> >>

\* models.py:14  Disease(**d) raises unless 0 <= match_probability <= 100
DiseaseValid(o) ==
    /\ DictHas(o, "disease_name") /\ DictHas(o, "match_reason")
    /\ DictHas(o, "match_probability")
    /\ DictGet(o, "match_probability") \in 0..MaxProbability

DiseaseLoad(o) ==
    Disease(DictGet(o, "disease_name"), DictGet(o, "match_reason"),
            DictGet(o, "match_probability"))

\* session_manager.py:51-85  _serialize_state
SerializeState(state) ==
    LET report == state.medical_report
        info_seek == state.information_seek
    IN [json |-> TRUE,
        data |->
          [messages |-> [i \in 1..Len(state.messages) |-> SerializeMessage(state.messages[i])],
           disease_buffer |->
               [i \in 1..Len(state.disease_buffer) |-> SerializeMessage(state.disease_buffer[i])],
           medical_report |->
               [evidences |-> report.evidences,
                images |-> report.images,
                images_analyses |-> report.images_analyses,
                summary |-> report.summary,
                most_likely_disease |->
                    [i \in 1..Len(report.most_likely_disease) |->
                        DiseaseDump(report.most_likely_disease[i])],
                medai_raw |-> report.medai_raw],
           \* "if info_seek:" a pydantic object is always truthy
           information_seek |->
               IF IsSome(info_seek)
               THEN Some(<< <<"questions", The(info_seek).questions>> >>)
               ELSE None,
           report_updated |-> state.report_updated,
           question_count |-> state.question_count]]

\* session_manager.py:87-127  whether _deserialize_state returns (no exception)
DeserializeOK(blob) ==
    /\ blob.json
    /\ \A i \in 1..Len(blob.data.medical_report.most_likely_disease) :
           DiseaseValid(blob.data.medical_report.most_likely_disease[i])
    \* InformationSeek(**info_seek_data) needs the key "questions"
    /\ LET info_seek_data == blob.data.information_seek
       IN IsSome(info_seek_data) /\ Len(The(info_seek_data)) > 0
              => DictHas(The(info_seek_data), "questions")

\* session_manager.py:87-127  _deserialize_state
DeserializeState(blob) ==
    LET data == blob.data
        report_data == data.medical_report
        info_seek_data == data.information_seek
    IN [messages |-> [i \in 1..Len(data.messages) |-> DeserializeMessage(data.messages[i])],
        new_user_message |-> None,
        medical_report |->
            [evidences |-> report_data.evidences,
             images |-> report_data.images,
             images_analyses |-> report_data.images_analyses,
             medai_raw |-> report_data.medai_raw,
             summary |-> report_data.summary,
             most_likely_disease |->
                 [i \in 1..Len(report_data.most_likely_disease) |->
                     DiseaseLoad(report_data.most_likely_disease[i])]],
        report_updated |-> data.report_updated,
        disease_buffer |->
            [i \in 1..Len(data.disease_buffer) |-> DeserializeMessage(data.disease_buffer[i])],
        \* "if info_seek_data:" null and the empty object are falsy
        information_seek |->
            IF IsSome(info_seek_data) /\ Len(The(info_seek_data)) > 0
            THEN Some(InformationSeek(DictGet(The(info_seek_data), "questions")))
            ELSE None,
        question_count |-> data.question_count]

\* variant: get_session without its try/except
GetSessionUnchecked(row) ==
    IF IsSome(row) THEN DeserializeState(The(row).session_data) ELSE FreshState

\* variant: every call starts from a new session
GetSessionFresh(row) == FreshState

\* session_manager.py:129-150  get_session
get_session(row) ==
    IF IsSome(row) /\ DeserializeOK(The(row).session_data)
    THEN DeserializeState(The(row).session_data)
    ELSE FreshState

RECURSIVE CommonPrefixLen(_, _)
\* the length of the longest common prefix of two lists
CommonPrefixLen(a, b) ==
    IF a = <<>> \/ b = <<>> \/ a[1] # b[1] THEN 0
    ELSE 1 + CommonPrefixLen(Tail(a), Tail(b))

\* variant: the turns of the stored row are kept, the new turns appended
SaveMergingTurns(row, state, user_id) ==
    LET old == get_session(row).messages
        n == CommonPrefixLen(old, state.messages)
        merged == [state EXCEPT
                      !.messages = old \o SubSeq(@, n + 1, Len(@))]
    IN Some([user_id |-> IF IsSome(user_id) \/ IsNone(row) THEN user_id
                         ELSE The(row).user_id,
             session_data |-> SerializeState(merged)])

\* variant: nothing is written
SaveNothing(row, state, user_id) == row

\* variant: the owner is set when the record is created and kept afterwards
SaveKeepingOwner(row, state, user_id) ==
    Some([user_id |-> IF IsSome(row) THEN The(row).user_id ELSE user_id,
          session_data |-> SerializeState(state)])

\* session_manager.py:152-172  save_session
save_session(row, state, user_id) ==
    LET json_data == SerializeState(state)
    IN IF IsSome(row)
       THEN Some([user_id |-> IF IsSome(user_id) THEN user_id ELSE The(row).user_id,
                  session_data |-> json_data])
       ELSE Some([user_id |-> user_id, session_data |-> json_data])


----------------------------------------------------------------------------
(* Inputs: what the user sends and what the providers may answer *)

\* main.py:54-56  the upload directory exists from start-up on
UploadDir == "uploads"
\* files.py:20-21  save_base64_image names every upload afresh
UploadPaths == <<"uploads/a.jpg", "uploads/b.jpg", "uploads/c.jpg">>

EvTitles == {"Fever"}
EvValues == {<<"Present; 3 days">>, <<"Absent">>}
EvItems == {[evidence_title |-> t, evidence_value |-> v] : t \in EvTitles, v \in EvValues}
ImgTitles == {"photo"}

\* models.py:102-104  PreReportUpdateLLMResponse; None is a failed provider call
ExtractionResponses(paths) ==
    {None} \cup
    {Some([evidence_list |-> e, image_list |-> i]) :
        e \in {None} \cup {Some(l) : l \in SeqsUpTo(EvItems, MaxEvLen)},
        i \in {None} \cup
              {Some(<<[image_title |-> t, image_path |-> p]>>) :
                   t \in ImgTitles, p \in paths \cup {"", "missing.jpg"}}}

\* models.py:115-119  ImageDescriptionLLMResponse
VisionResponses ==
    {[image_title |-> t, image_description |-> c[1], diseases |-> c[2], has_skin |-> c[3]] :
        t \in {"", "Rash"},
        c \in {<< <<"description">>, "", FALSE >>,
               << <<"description">>, "llm note", FALSE >>,
               << <<"description">>, "", TRUE >>,
               << <<>>, "", FALSE >>}}

\* the outcome of the three provider calls made for one image:
\* vision  None (call failed) or the response; medai  whether the skin
\* classifier answered; rewrite  whether the narrative rewrite succeeded
ImageOutcomes ==
    {[vision |-> v, medai |-> m, rewrite |-> r] :
        v \in {None} \cup {Some(x) : x \in VisionResponses}, m \in BOOLEAN, r \in BOOLEAN}

\* models.py:24-26  YesNo; "fail" is a failed provider call
OracleAnswers == {"yes", "no", "fail"}

\* the disease the provider names in its k-th answer of a loop (the prompt's
\* ONE-BY-ONE rule, graph.py:394: one new disease per turn)
DiseasePool ==
    <<"Measles", "Flu", "Rubella", "Cold", "Angina", "Zika", "Mumps",
      "Gout", "Acne", "Tetanus", "Rabies", "Polio", "Scurvy">>
Probabilities == {64, 65, 90}
\* models.py:19-21  DiseaseSuggestionLLMResponse, the k-th answer; None is a failed call
SuggestionResponses(k) ==
    {None} \cup
    {Some([index |-> k - 1, disease |-> d]) :
        d \in {None, Some(Disease("", "reason", 90))} \cup
              {Some(Disease(DiseasePool[k], "reason", p)) :
                   p \in IF k <= MaxVaried THEN Probabilities ELSE Probabilities \ {90}}}

QuestionPool == <<"q1", "q2", "q3", "q4", "q5", "q6", "q7">>
\* models.py:125-126  InformationSeek; None is a failed provider call
SeekResponses ==
    {None} \cup {Some(InformationSeek(Take(QuestionPool, n))) : n \in {0, 2, MaxQuestions}}

\* models.py:128-130  InterviewResponse; None is a failed provider call
InterviewResponses ==
    {None,
     Some([message |-> <<>>, suggested_actions |-> <<>>]),
     Some([message |-> <<"reply">>, suggested_actions |-> <<>>]),
     Some([message |-> <<"reply">>, suggested_actions |-> <<"Yes", "No">>])}

\* the caller identity chat_stream is given
UserIds == {None, Some("alice"), Some("bob")}

----------------------------------------------------------------------------
(* Stages: graph.py.  Each stage is a function of the state it receives and *)
(* of the outcome of its provider calls.                                    *)

\* variant: an upsert that extends the value already recorded
UpsertAppending(evidences, title, value) ==
    IF DictHas(evidences, title)
    THEN DictSet(evidences, title, DictGet(evidences, title) \o value)
    ELSE DictSet(evidences, title, value)

\* graph.py:116  state["medical_report"].evidences[title] = value
UpsertEvidence(evidences, title, value) == DictSet(evidences, title, value)

RECURSIVE ApplyEvidenceList(_, _)
\* graph.py:114-117  the loop over response.evidence_list
ApplyEvidenceList(evidences, list) ==
    IF list = <<>> THEN evidences
    ELSE ApplyEvidenceList(
             UpsertEvidence(evidences, list[1].evidence_title, list[1].evidence_value),
             Tail(list))

\* graph.py:121  image.image_path and os.path.exists(image.image_path)
ImageAccepted(report, image, paths) ==
    image.image_path # "" /\ image.image_path \in paths

RECURSIVE RegisterImages(_, _, _)
\* graph.py:119-124  the loop over response.image_list
RegisterImages(report, list, paths) ==
    IF list = <<>> THEN report
    ELSE LET image == list[1]
             next == IF ImageAccepted(report, image, paths)
                     THEN [report EXCEPT
                              !.images = DictSet(@, image.image_title, image.image_path),
                              !.images_analyses = DictSet(@, image.image_title, <<>>)]
                     ELSE report
         IN RegisterImages(next, Tail(list), paths)

\* variant: the user's turn is appended and left in the slot
ExtractKeepingSlot(state, response, paths) ==
    LET s0 == [state EXCEPT !.report_updated = FALSE]
    IN IF IsNone(response) THEN s0
       ELSE LET r == The(response)
                evs == IF IsSome(r.evidence_list) THEN The(r.evidence_list) ELSE <<>>
                imgs == IF IsSome(r.image_list) THEN The(r.image_list) ELSE <<>>
                rep1 == [s0.medical_report EXCEPT
                            !.evidences = ApplyEvidenceList(@, evs)]
                rep2 == RegisterImages(rep1, imgs, paths)
                changed == \/ evs # <<>>
                           \/ \E i \in 1..Len(imgs) : ImageAccepted(rep1, imgs[i], paths)
            IN [s0 EXCEPT !.medical_report = rep2,
                          !.report_updated = changed,
                          !.messages = Append(@, The(s0.new_user_message))]

\* graph.py:42-132  pre_report_update_node
pre_report_update_node(state, response, paths) ==
    LET s0 == [state EXCEPT !.report_updated = FALSE]
    IN IF IsNone(response) THEN s0
       ELSE LET r == The(response)
                evs == IF IsSome(r.evidence_list) THEN The(r.evidence_list) ELSE <<>>
                imgs == IF IsSome(r.image_list) THEN The(r.image_list) ELSE <<>>
                rep1 == [s0.medical_report EXCEPT
                            !.evidences = ApplyEvidenceList(@, evs)]
                rep2 == RegisterImages(rep1, imgs, paths)
                changed == \/ evs # <<>>
                           \/ \E i \in 1..Len(imgs) : ImageAccepted(rep1, imgs[i], paths)
            IN [s0 EXCEPT !.medical_report = rep2,
                          !.report_updated = changed,
                          !.messages = Append(@, The(s0.new_user_message)),
                          !.new_user_message = None]

\* tools.py:11-29  image_to_base64 returns: the path is a file with a known MIME type
ImageReadable(path) == path \in Range(UploadPaths)

\* graph.py:158  image_name not in analyses or analyses[image_name] == ""
NeedsAnalysis(report, image_name) ==
    \/ ~DictHas(report.images_analyses, image_name)
    \/ DictGet(report.images_analyses, image_name) = <<>>

\* graph.py:157-158  the next image of the snapshot, from position i on, to analyse (0: none)
NextImage(report, names, i) ==
    IF \E j \in i..Len(names) : NeedsAnalysis(report, names[j])
    THEN CHOOSE j \in i..Len(names) :
             /\ NeedsAnalysis(report, names[j])
             /\ \A k \in i..(j - 1) : ~NeedsAnalysis(report, names[k])
    ELSE 0

\* graph.py:163, models.py:53-56  get_image_base64 does not raise
ImageLoads(report, image_name) ==
    DictHas(report.images, image_name) /\ ImageReadable(DictGet(report.images, image_name))

\* variant: a retitle that leaves the analysis entry of the old title
RenameKeepingAnalysis(report, image_name, title) ==
    LET path == DictGet(report.images, image_name)
        images1 == DictSet(report.images, title, path)
        analyses1 == DictSet(report.images_analyses, title, <<>>)
    IN [report EXCEPT !.images = DictDel(images1, image_name),
                      !.images_analyses = analyses1]

\* graph.py:210-217  the image is given the title the vision provider returned
RenameImage(report, image_name, title) ==
    LET path == DictGet(report.images, image_name)
        images1 == DictSet(report.images, title, path)
        analyses1 == DictSet(report.images_analyses, title, <<>>)
    IN [report EXCEPT !.images = DictDel(images1, image_name),
                      !.images_analyses = DictDel(analyses1, image_name)]

\* graph.py:160-264  one iteration of the loop of image_analysis_node, for an
\* image that get_image_base64 could load
AnalyseImage(state, image_name, out) ==
    LET report0 == [state.medical_report EXCEPT
                       !.images_analyses = DictSet(@, image_name, <<>>)]
        ok == IsSome(out.vision)
        v == The(out.vision)
        renamed == ok /\ v.image_title # "" /\ v.image_title # image_name
        name == IF renamed THEN v.image_title ELSE image_name
        report1 == IF renamed THEN RenameImage(report0, image_name, name) ELSE report0
        report2 == IF ok
                   THEN [report1 EXCEPT !.images_analyses = DictSet(@, name, v.image_description)]
                   ELSE report1
        report3 == IF ok /\ v.diseases # ""
                   THEN [report2 EXCEPT !.medai_raw = DictSet(@, name, v.diseases)]
                   ELSE report2
        report4 == IF ok /\ v.has_skin /\ out.medai
                   THEN [report3 EXCEPT !.medai_raw = DictSet(@, name, "ai_predictions")]
                   ELSE report3
        raw == DictHas(report4.medai_raw, name) /\ DictGet(report4.medai_raw, name) # ""
        report5 == IF raw /\ out.rewrite
                   THEN [report4 EXCEPT !.images_analyses =
                            DictSet(@, name, DictGet(@, name) \o <<"AI Disease Prediction">>)]
                   ELSE report4
    IN [state EXCEPT !.medical_report = report5,
                     !.report_updated = @ \/ ok \/ (raw /\ out.rewrite)]
\* graph.py:269-271  user_goal
user_goal(state) == IF state.report_updated THEN "yes" ELSE "no"

\* graph.py:279-284, 307  the stage returns without asking the oracle
NoQuestions(state) ==
    IsNone(state.information_seek) \/ The(state.information_seek).questions = <<>>

\* variant: a reconciliation whose counter is the number of questions left
ReconcileCountingLeft(state, got_an_answer, answer) ==
    LET questions == The(state.information_seek).questions
    IN [state |-> IF answer = "yes"
                  THEN [state EXCEPT
                           !.question_count = Len(questions) - 1,
                           !.information_seek = Some(InformationSeek(Front(questions)))]
                  ELSE state,
        got_an_answer |-> got_an_answer \/ answer = "yes",
        returned |-> answer = "no" \/ (answer = "yes" /\ Len(questions) = 1)]

\* variant: an answered question is taken from the front of the queue
ReconcilePoppingFront(state, got_an_answer, answer) ==
    LET questions == The(state.information_seek).questions
    IN CASE answer = "yes" ->
              [state |-> [state EXCEPT
                             !.question_count = @ + 1,
                             !.information_seek = Some(InformationSeek(Tail(questions)))],
               got_an_answer |-> TRUE,
               returned |-> Len(questions) = 1]
         [] answer = "no" ->
              [state |-> IF ~got_an_answer /\ state.report_updated
                         THEN [state EXCEPT !.information_seek = Some(InformationSeek(<<>>))]
                         ELSE state,
               got_an_answer |-> got_an_answer,
               returned |-> TRUE]
         [] OTHER ->
              [state |-> state, got_an_answer |-> got_an_answer, returned |-> FALSE]

\* variant: an unanswered question always empties the queue
ReconcileAlwaysDiscarding(state, got_an_answer, answer) ==
    LET questions == The(state.information_seek).questions
    IN CASE answer = "yes" ->
              [state |-> [state EXCEPT
                             !.question_count = @ + 1,
                             !.information_seek = Some(InformationSeek(Front(questions)))],
               got_an_answer |-> TRUE,
               returned |-> Len(questions) = 1]
         [] answer = "no" ->
              [state |-> [state EXCEPT !.information_seek = Some(InformationSeek(<<>>))],
               got_an_answer |-> got_an_answer,
               returned |-> TRUE]
         [] OTHER ->
              [state |-> state, got_an_answer |-> got_an_answer, returned |-> FALSE]

\* graph.py:307-337  one iteration of the loop of process_question_list_node:
\* the oracle is asked about questions[-1]
ReconcileStep(state, got_an_answer, answer) ==
    LET questions == The(state.information_seek).questions
    IN CASE answer = "yes" ->
              [state |-> [state EXCEPT
                             !.question_count = @ + 1,
                             !.information_seek = Some(InformationSeek(Front(questions)))],
               got_an_answer |-> TRUE,
               returned |-> Len(questions) = 1]
         [] answer = "no" ->
              [state |-> IF ~got_an_answer /\ state.report_updated
                         THEN [state EXCEPT !.information_seek = Some(InformationSeek(<<>>))]
                         ELSE state,
               got_an_answer |-> got_an_answer,
               returned |-> TRUE]
         [] OTHER ->
              [state |-> state, got_an_answer |-> got_an_answer, returned |-> FALSE]

\* graph.py:341-347  pipeline_router
pipeline_router(state) ==
    IF IsSome(state.information_seek) /\ Len(The(state.information_seek).questions) > 0
    THEN "interview"
    ELSE "analysis"

NextDisease == [text |-> "next disease"]

\* variant: the first suggestion of a loop empties the candidate list
SuggestClearingList(state, response) ==
    LET s0 == [state EXCEPT !.report_updated = FALSE,
                            !.disease_buffer = Append(@, HumanMessage(NextDisease)),
                            !.medical_report.most_likely_disease =
                                IF state.disease_buffer = <<>> THEN <<>> ELSE @]
    IN IF IsNone(response) THEN s0
       ELSE [s0 EXCEPT !.disease_buffer = Append(@, AIMessage(The(response), <<>>))]

\* graph.py:349-419  disease_suggestion_node
disease_suggestion_node(state, response) ==
    LET s0 == [state EXCEPT !.report_updated = FALSE,
                            !.disease_buffer = Append(@, HumanMessage(NextDisease))]
    IN IF IsNone(response) THEN s0
       ELSE [s0 EXCEPT !.disease_buffer = Append(@, AIMessage(The(response), <<>>))]

\* DiseaseSuggestionLLMResponse.model_validate_json(content) returns
IsSuggestionJson(content) == "disease" \in DOMAIN content

\* variant: the stop condition without the cap on the buffer
StopWithoutCap(state, suggestion) ==
    \/ IsNone(suggestion.disease)
    \/ The(suggestion.disease).disease_name = ""
    \/ The(suggestion.disease).match_probability < MinProbability

\* variant: the stop condition without the test of the probability
StopWhateverProbability(state, suggestion) ==
    \/ IsNone(suggestion.disease)
    \/ The(suggestion.disease).disease_name = ""
    \/ Len(state.disease_buffer) > BufferCap

\* graph.py:462  the stop condition
StopCondition(state, suggestion) ==
    \/ IsNone(suggestion.disease)
    \/ The(suggestion.disease).disease_name = ""
    \/ Len(state.disease_buffer) > BufferCap
    \/ The(suggestion.disease).match_probability < MinProbability

\* graph.py:456-467  loop_disease_suggestion: the key it returns, "None" when it
\* falls off its end, "raise" when model_validate_json raises
loop_disease_suggestion(state) ==
    IF Len(state.disease_buffer) > 1
    THEN LET content == Last(state.disease_buffer).content
         IN IF ~IsSuggestionJson(content) THEN "raise"
            ELSE IF StopCondition(state, content) THEN "continue"
            ELSE "disease-loop"
    ELSE "None"

\* variant: a fold that keeps the candidates of earlier runs
FoldKeepingPrior(state) ==
    LET s0 == [state EXCEPT !.report_updated = FALSE]
    IN IF Len(s0.disease_buffer) > 1
       THEN LET suggestion == Last(s0.disease_buffer).content
            IN IF IsSome(suggestion.disease) /\ The(suggestion.disease).disease_name # ""
               THEN [s0 EXCEPT !.medical_report.most_likely_disease =
                        Append(@, The(suggestion.disease))]
               ELSE s0
       ELSE s0

\* graph.py:421-441  process_diagnosis_node
process_diagnosis_node(state) ==
    LET s0 == [state EXCEPT !.report_updated = FALSE]
    IN IF Len(s0.disease_buffer) > 1
       THEN LET suggestion == Last(s0.disease_buffer).content
            IN IF IsSome(suggestion.disease) /\ The(suggestion.disease).disease_name # ""
               THEN [s0 EXCEPT !.medical_report.most_likely_disease =
                        Append(IF Len(s0.disease_buffer) = 2 THEN <<>> ELSE @,
                               The(suggestion.disease))]
               ELSE s0
       ELSE s0

\* variant: an insertion that puts x before the items of equal probability
InsertBeforeTies(sorted, x) ==
    LET n == Cardinality({i \in 1..Len(sorted) :
                             sorted[i].match_probability > x.match_probability})
    IN SubSeq(sorted, 1, n) \o <<x>> \o SubSeq(sorted, n + 1, Len(sorted))

\* variant: an insertion at the end, which leaves a list in the order it had
InsertAtEnd(sorted, x) == Append(sorted, x)

\* where sorted(..., reverse=True) puts x among already sorted items: after
\* every item whose probability is not lower
InsertByProbability(sorted, x) ==
    LET n == Cardinality({i \in 1..Len(sorted) :
                             sorted[i].match_probability >= x.match_probability})
    IN SubSeq(sorted, 1, n) \o <<x>> \o SubSeq(sorted, n + 1, Len(sorted))

RECURSIVE SortByProbability(_)
\* graph.py:452  sorted(disease, key=lambda x: x.match_probability, reverse=True)
SortByProbability(list) ==
    IF list = <<>> THEN <<>>
    ELSE InsertByProbability(SortByProbability(Front(list)), Last(list))

\* variant: a sort that leaves the buffer as it is
SortKeepingBuffer(state) ==
    LET disease == state.medical_report.most_likely_disease
    IN [state EXCEPT !.medical_report.most_likely_disease =
                         IF Len(disease) > 0 THEN SortByProbability(disease) ELSE @]

\* graph.py:443-454  sort_disease_node
sort_disease_node(state) ==
    LET disease == state.medical_report.most_likely_disease
    IN [state EXCEPT !.disease_buffer = <<>>,
                     !.medical_report.most_likely_disease =
                         IF Len(disease) > 0 THEN SortByProbability(disease) ELSE @]

\* graph.py:516  state['question_count'] > 20
FatigueStop(state) == state.question_count > FatigueLimit

\* variant: the questions are stored as the provider returned them
SeekUntrimmed(state, response) ==
    LET s0 == [state EXCEPT !.report_updated = FALSE]
    IN IF FatigueStop(s0) \/ IsNone(response) \/ Len(The(response).questions) = 0
       THEN [s0 EXCEPT !.information_seek = None]
       ELSE [s0 EXCEPT !.information_seek = Some(InformationSeek(The(response).questions))]

\* graph.py:469-536  information_seek_node
information_seek_node(state, response) ==
    LET s0 == [state EXCEPT !.report_updated = FALSE]
    IN IF FatigueStop(s0) \/ IsNone(response) \/ Len(The(response).questions) = 0
       THEN [s0 EXCEPT !.information_seek = None]
       ELSE [s0 EXCEPT !.information_seek =
                Some(InformationSeek(Take(The(response).questions, QuestionTrim)))]

\* graph.py:560-564  the steering hint: questions[-1], "" without questions
Hint(state) ==
    IF IsSome(state.information_seek) /\ Len(The(state.information_seek).questions) > 0
    THEN Last(The(state.information_seek).questions)
    ELSE ""

\* variant: no text
FallbackEmpty == <<>>

FallbackReply == <<"I have encountered an error! Please try again later.">>

\* graph.py:538-635  propose_message_node
propose_message_node(state, response) ==
    LET s0 == [state EXCEPT
                  !.report_updated = FALSE,
                  !.messages = IF IsSome(state.new_user_message)
                               THEN Append(@, The(state.new_user_message)) ELSE @,
                  !.new_user_message = None]
    IN IF IsNone(response)
       THEN [s0 EXCEPT !.messages = Append(@, AIMessage(FallbackReply, <<>>))]
       ELSE IF The(response).message # <<>>
       THEN [s0 EXCEPT !.messages =
                Append(@, AIMessage(The(response).message,
                          << <<"suggested_actions", The(response).suggested_actions>> >>))]
       ELSE s0


----------------------------------------------------------------------------
(* Events: __init__.py *)

ProgressEvent(message, node) ==
    [type |-> "progress", payload |-> [message |-> message, node |-> node]]

\* os.path.basename
Basename(path) ==
    CASE path = UploadPaths[1] -> "a.jpg"
      [] path = UploadPaths[2] -> "b.jpg"
      [] path = UploadPaths[3] -> "c.jpg"
      [] OTHER -> path

\* variant: the report is announced as a progress event
ReportAsProgress(report) ==
    [type |-> "progress", payload |-> [message |-> "report", node |-> ""]]

\* __init__.py:61-74
ReportUpdateEvent(report) ==
    [type |-> "report_update",
     payload |-> [evidences |-> report.evidences,
                  images |-> [i \in 1..Len(report.images) |->
                                 <<report.images[i][1], Basename(report.images[i][2])>>],
                  images_analyses |-> report.images_analyses,
                  summary |-> report.summary]]

\* __init__.py:103-115, 126-138
DiagnosisUpdateEvent(diseases) ==
    [type |-> "diagnosis_update",
     payload |-> [diseases |-> [i \in 1..Len(diseases) |->
                                   [id |-> i - 1,
                                    name |-> diseases[i].disease_name,
                                    likelihood |-> diseases[i].match_probability,
                                    reason |-> diseases[i].match_reason]]]]

\* __init__.py:154-167
ResultEvent(state) ==
    LET last_msg_obj == Last(state.messages)
    IN [type |-> "result",
        payload |-> [message |-> last_msg_obj.content,
                     suggestedActions |->
                         IF DictHas(last_msg_obj.additional_kwargs, "suggested_actions")
                         THEN DictGet(last_msg_obj.additional_kwargs, "suggested_actions")
                         ELSE <<>>]]

\* variant: a failure reported as one more progress event
ErrorAsProgress(message) == [type |-> "progress", payload |-> [message |-> message]]

\* __init__.py:37-40, 173-176
ErrorEvent(message) == [type |-> "error", payload |-> [message |-> message]]

\* __init__.py:57-148  what chat_stream yields for one update of the graph
NodeEvents(node_name, final_state) ==
    LET report == final_state.medical_report
        diseases == report.most_likely_disease
        latest_disease == IF diseases # <<>> THEN Last(diseases).disease_name ELSE "condition"
    IN (IF final_state.report_updated THEN <<ReportUpdateEvent(report)>> ELSE <<>>) \o
       (CASE node_name = "pre-report-update" ->
                 IF final_state.report_updated
                 THEN <<ProgressEvent("Updating medical records...", node_name)>>
                 ELSE <<ProgressEvent("Preparing response...", node_name)>>
          [] node_name = "image-analysis" ->
                 <<ProgressEvent("Checking medical knowledge...", node_name)>>
          [] node_name = "disease-suggestion" ->
                 <<ProgressEvent("Evaluating possibilities...", node_name)>>
          [] node_name = "process-diagnosis" ->
                 <<DiagnosisUpdateEvent(SortByProbability(diseases)),
                   ProgressEvent(<<"Found potential match: ", latest_disease>>, node_name)>>
          [] node_name = "sort-disease" ->
                 <<DiagnosisUpdateEvent(diseases)>>
          [] node_name = "info-seek" ->
                 <<ProgressEvent("Formulating next steps...", node_name)>>
          [] node_name = "interview" ->
                 <<ProgressEvent("Sending reply...", node_name)>>
          [] OTHER -> <<>>)

----------------------------------------------------------------------------
(* One whole run as a function of the providers' answers.  It is used to    *)
(* build the sessions a new run may find stored.                            *)

RECURSIVE AnalyseAll(_, _, _, _)
\* graph.py:157-264  the loop of image_analysis_node over the snapshot
AnalyseAll(state, names, i, outs) ==
    LET j == NextImage(state.medical_report, names, i)
    IN IF j = 0 \/ outs = <<>> THEN state
       ELSE AnalyseAll(AnalyseImage(state, names[j], Head(outs)), names, j + 1, Tail(outs))

\* graph.py:134-267  image_analysis_node, every image loadable
image_analysis_node(state, outs) ==
    LET was == state.report_updated
        s0 == [state EXCEPT !.report_updated = FALSE]
        s1 == AnalyseAll(s0, DictKeys(s0.medical_report.images), 1, outs)
    IN [s1 EXCEPT !.report_updated = was \/ @]

RECURSIVE ReconcileAll(_, _, _)
\* graph.py:273-339  process_question_list_node
ReconcileAll(state, got_an_answer, answers) ==
    IF NoQuestions(state) \/ answers = <<>> THEN state
    ELSE LET r == ReconcileStep(state, got_an_answer, Head(answers))
         IN IF r.returned THEN r.state
            ELSE ReconcileAll(r.state, r.got_an_answer, Tail(answers))

RECURSIVE DiagnosisLoop(_, _)
\* graph.py:677-686  disease-suggestion and process-diagnosis until "continue"
DiagnosisLoop(state, responses) ==
    LET s1 == disease_suggestion_node(state, Head(responses))
    IN IF loop_disease_suggestion(s1) = "disease-loop" /\ Len(responses) > 1
       THEN DiagnosisLoop(process_diagnosis_node(s1), Tail(responses))
       ELSE s1

\* graph.py:640-691  build_graph: the stages in the order the edges give
run_graph(state, script, paths) ==
    LET s1 == pre_report_update_node(state, script.extraction, paths)
        s2 == image_analysis_node(s1, script.images)
        s3 == ReconcileAll(s2, FALSE, script.oracle)
        s4 == DiagnosisLoop(s3, script.suggestions)
        s5 == information_seek_node(sort_disease_node(s4), script.seek)
    IN IF user_goal(s2) = "no" THEN propose_message_node(s2, script.reply)
       ELSE IF pipeline_router(s3) = "interview" THEN propose_message_node(s3, script.reply)
       ELSE propose_message_node(s5, script.reply)

RECURSIVE UserMessage(_, _)
\* __init__.py:27-34  the text of the turn: the message, one line per image saved
UserMessage(text, img_paths) ==
    IF img_paths = <<>> THEN <<text>>
    ELSE UserMessage(text, Front(img_paths)) \o <<"- uploaded image: ", Last(img_paths)>>

\* __init__.py:25-148  the state a call holds when the graph has ended
final_state(row, script) ==
    LET state == [get_session(row) EXCEPT
                     !.new_user_message =
                         Some(HumanMessage(UserMessage(script.text, script.new_images)))]
    IN run_graph(state, script, {UploadDir} \cup Range(script.new_images))

\* __init__.py:19-151  chat_stream, every image saved: load, run, save
chat_stream(row, script) ==
    save_session(row, final_state(row, script), script.user_id)

RECURSIVE ChatRuns(_, _)
\* the row a sequence of runs leaves, one after the other
ChatRuns(row, scripts) ==
    IF scripts = <<>> THEN row
    ELSE ChatRuns(chat_stream(row, Head(scripts)), Tail(scripts))

Suggest(k, p) == Some([index |-> k - 1, disease |-> Some(Disease(DiseasePool[k], "reason", p))])
NoSuggestion(k) == Some([index |-> k - 1, disease |-> None])
FeverPresent ==
    Some([evidence_list |-> Some(<<[evidence_title |-> "Fever",
                                    evidence_value |-> <<"Present; 3 days">>]>>),
          image_list |-> None])
Reply == Some([message |-> <<"reply">>, suggested_actions |-> <<"Yes", "No">>])

\* a greeting: nothing extracted, the reply only
Greeting ==
    [text |-> "hello", new_images |-> <<>>,
     extraction |-> Some([evidence_list |-> None, image_list |-> None]),
     images |-> <<>>, oracle |-> <<>>, suggestions |-> <<>>, seek |-> None,
     reply |-> Reply, user_id |-> Some("alice")]

\* a message with a fact: answers to the pending questions, two candidates
\* (a tie broken by order), n new questions
Visit(answers, n) ==
    [text |-> "I have a fever", new_images |-> <<>>,
     extraction |-> FeverPresent, images |-> <<>>,
     oracle |-> answers,
     suggestions |-> <<Suggest(1, 65), Suggest(2, 90), NoSuggestion(3)>>,
     seek |-> Some(InformationSeek(Take(QuestionPool, n))),
     reply |-> Reply, user_id |-> None]

Yes(n) == [i \in 1..n |-> "yes"]

\* the runs that came before the one the model follows
Pasts ==
    {<<>>,
     <<Greeting>>,
     <<Visit(<<>>, 2)>>,
     <<Visit(<<>>, 5), Visit(Yes(5), 5), Visit(Yes(5), 5), Visit(Yes(5), 5),
       Visit(Yes(4) \o <<"no">>, 5)>>,
     <<Visit(<<>>, 5), Visit(Yes(5), 5), Visit(Yes(5), 5), Visit(Yes(5), 5),
       Visit(Yes(5), 2)>>}

----------------------------------------------------------------------------
(* The state machine *)

NoLocals == [names |-> <<>>, i |-> 0, was |-> FALSE, got |-> FALSE, fails |-> 0]

\* observations of a run: the last stage executed, the calls of
\* disease_suggestion_node, the suggestions the provider returned, the list
\* sort_disease_node was given, the evidence list the extraction applied
NoHistory ==
    [node |-> "", nsugg |-> 0, suggs |-> <<>>, unsorted |-> <<>>, evidence_list |-> None,
     \* the stages executed, whether a stage returned with report_updated set,
     \* the row get_session found, whether the extraction provider answered,
     \* the outcome of the reply provider
     stages |-> {}, dirty |-> FALSE, stored |-> None, extracted |-> FALSE, reply |-> "",
     \* Question Reconciliation: the queue, the counter and the flag it found,
     \* the oracle calls it made (question, answer)
     queue0 |-> None, count0 |-> 0, dirty_in |-> FALSE, asked |-> <<>>,
     \* Diagnosis Suggestion: the state it found, whether its provider answered
     before |-> None, suggested |-> FALSE,
     \* Image Analysis: the images it found
     \* and the titles whose image could not be read, whose vision call failed
     images0 |-> <<>>, unread |-> {}, unseen |-> {},
     \* the caller identity given to save_session, the hint of Interview Reply
     caller |-> None, hint |-> ""]

\* the stage node_name has been entered
Visited(h, node_name) == [h EXCEPT !.node = node_name, !.stages = @ \cup {node_name}]

\* Image Analysis is at work: state is the state before the step, next the one after
Analysing(h, state, next) ==
    [Visited(h, "image-analysis") EXCEPT
        !.evidence_list = None, !.dirty = @ \/ next.report_updated,
        !.images0 = IF h.node # "image-analysis" THEN state.medical_report.images ELSE @]

\* Question Reconciliation is entered
Reconciling(h, state) ==
    [Visited(h, "process-questions") EXCEPT
        !.queue0 = state.information_seek, !.count0 = state.question_count,
        !.dirty_in = state.report_updated, !.asked = <<>>]

\* the observations of Question Reconciliation are dropped
Reconciled(h) ==
    [h EXCEPT !.queue0 = None, !.count0 = 0, !.dirty_in = FALSE, !.asked = <<>>]

\* the same, the observations of the diagnosis loop dropped
Cleared(h, node_name) ==
    [NoHistory EXCEPT !.node = node_name, !.stages = h.stages \cup {node_name},
                      !.dirty = h.dirty, !.stored = h.stored,
                      !.extracted = h.extracted, !.reply = h.reply,
                      !.unread = h.unread, !.unseen = h.unseen]

\* no second call
NoRival == [pc |-> "absent", text |-> "", final |-> None, user_id |-> None, last |-> FALSE]

InitRest ==
    /\ files = {UploadDir}
    /\ st = FreshState
    /\ pc = "idle"
    /\ events = <<>>
    /\ loc = NoLocals
    /\ hist = NoHistory

Init ==
    /\ db \in {ChatRuns(None, past) : past \in Pasts}
    /\ InitRest
    /\ rival = NoRival

\* a graph update reached chat_stream: its events are yielded, the graph goes on
Yield(node_name, state, next) ==
    /\ st' = state
    /\ events' = events \o NodeEvents(node_name, state)
    /\ pc' = next

\* __init__.py:169-176  an exception left the graph
Raise(state) ==
    /\ st' = state
    /\ events' = Append(events, ErrorEvent("Assistant failed! Please try again."))
    /\ pc' = "failed"

\* __init__.py:25  state = await session_manager.get_session(session_id)
GetSession ==
    /\ pc = "idle"
    /\ st' = get_session(db)
    /\ pc' = "loaded"
    /\ hist' = [hist EXCEPT !.stored = db]
    /\ UNCHANGED <<db, files, events, loc, rival>>

UserText == "new message"

\* files.py:20-21  the number of images saved so far
Uploaded == Cardinality(files \cap Range(UploadPaths))

\* __init__.py:27-51  the images are stored, the user's turn is built
Ingest ==
    /\ pc = "loaded"
    /\ \E new_images \in {"none", "saved", "rejected"} :
         CASE new_images = "none" ->
                /\ st' = [st EXCEPT !.new_user_message = Some(HumanMessage(<<UserText>>))]
                /\ events' = <<ProgressEvent("Reading your message...", "start")>>
                /\ pc' = "pre-report-update"
                /\ files' = files
           [] new_images = "saved" ->
                /\ LET img_path == UploadPaths[Uploaded + 1]
                   IN /\ st' = [st EXCEPT !.new_user_message =
                                   Some(HumanMessage(UserMessage(UserText, <<img_path>>)))]
                      /\ files' = files \cup {img_path}
                /\ events' = <<ProgressEvent("Reading your message...", "start")>>
                /\ pc' = "pre-report-update"
           [] OTHER ->
                /\ events' = <<ErrorEvent("Image upload failed! Please try again.")>>
                /\ pc' = "failed"
                /\ UNCHANGED <<st, files>>
    /\ UNCHANGED <<db, loc, hist, rival>>

\* graph.py:42-132  Evidence Extraction
PreReportUpdate ==
    /\ pc = "pre-report-update"
    /\ \E response \in ExtractionResponses(files) :
         /\ Yield("pre-report-update", pre_report_update_node(st, response, files),
                  "image-analysis")
         /\ hist' = [Visited(hist, "pre-report-update") EXCEPT
                        !.dirty = pre_report_update_node(st, response, files).report_updated,
                        !.extracted = IsSome(response),
                        !.evidence_list = IF IsSome(response) THEN The(response).evidence_list
                                          ELSE None]
    /\ UNCHANGED <<db, files, loc, rival>>

\* variant: the edge after Image Analysis always leads to Question Reconciliation
ReturnToQuestions(state, was) ==
    Yield("image-analysis", [state EXCEPT !.report_updated = was \/ @], "process-questions")

\* graph.py:266-267 and the edge of build_graph (658-665): the stage returns
ImageAnalysisReturn(state, was) ==
    LET final == [state EXCEPT !.report_updated = was \/ @]
    IN Yield("image-analysis", final,
             IF user_goal(final) = "yes" THEN "process-questions" ELSE "interview")

\* graph.py:134-267  Image Analysis, one image per step
ImageAnalysis ==
    /\ pc = "image-analysis"
    /\ LET entering == hist.node # "image-analysis"
           \* graph.py:149-155
           was == IF entering THEN st.report_updated ELSE loc.was
           names == IF entering THEN DictKeys(st.medical_report.images) ELSE loc.names
           s0 == IF entering THEN [st EXCEPT !.report_updated = FALSE] ELSE st
           j == NextImage(s0.medical_report, names, IF entering THEN 1 ELSE loc.i)
       IN /\ IF j = 0
             THEN /\ ImageAnalysisReturn(s0, was)
                  /\ loc' = NoLocals
                  /\ hist' = Analysing(hist, st, st')
             ELSE IF ~ImageLoads(s0.medical_report, names[j])
             THEN /\ Raise([s0 EXCEPT !.medical_report.images_analyses =
                                          DictSet(@, names[j], <<>>)])
                  /\ loc' = NoLocals
                  /\ hist' = [Analysing(hist, st, st') EXCEPT !.unread = @ \cup {names[j]}]
             ELSE \E out \in ImageOutcomes :
                    LET s1 == AnalyseImage(s0, names[j], out)
                    IN /\ IF NextImage(s1.medical_report, names, j + 1) = 0
                          THEN /\ ImageAnalysisReturn(s1, was)
                               /\ loc' = NoLocals
                          ELSE /\ st' = s1
                               /\ loc' = [loc EXCEPT !.names = names, !.i = j + 1,
                                                     !.was = was]
                               /\ UNCHANGED <<events, pc>>
                       /\ hist' = [Analysing(hist, st, st') EXCEPT
                                      !.unseen = IF IsNone(out.vision)
                                                 THEN @ \cup {names[j]} ELSE @]
    /\ UNCHANGED <<db, files, rival>>

\* variant: the edge after Question Reconciliation always leads to Diagnosis Suggestion
ReturnToSuggestion(state) == Yield("process-questions", state, "disease-suggestion")

\* the edge of build_graph (667-674) after process-questions
ProcessQuestionsReturn(state) ==
    Yield("process-questions", state,
          IF pipeline_router(state) = "interview" THEN "interview" ELSE "disease-suggestion")

\* graph.py:273-339  Question Reconciliation, one oracle call per step
ProcessQuestions ==
    /\ pc = "process-questions"
    /\ IF NoQuestions(st)
       THEN /\ ProcessQuestionsReturn(st)
            /\ loc' = NoLocals
            /\ hist' = Reconciling(hist, st)
       ELSE \E answer \in OracleAnswers :
              /\ answer = "fail" => loc.fails < MaxOracleFails
              /\ hist' = [(IF hist.node = "process-questions" THEN hist
                           ELSE Reconciling(hist, st)) EXCEPT
                             !.asked = Append(@, <<Last(The(st.information_seek).questions),
                                                   answer>>)]
              /\ LET r == ReconcileStep(st, loc.got, answer)
                 IN IF r.returned
                    THEN /\ ProcessQuestionsReturn(r.state)
                         /\ loc' = NoLocals
                    ELSE /\ st' = r.state
                         /\ loc' = [loc EXCEPT !.got = r.got_an_answer,
                                       !.fails = IF answer = "fail" THEN @ + 1 ELSE 0]
                         /\ UNCHANGED <<events, pc>>
    /\ UNCHANGED <<db, files, rival>>

\* graph.py:349-419 and the edge of build_graph (677-684)  Diagnosis Suggestion
DiseaseSuggestion ==
    /\ pc = "disease-suggestion"
    /\ hist.nsugg < MaxSuggestCalls
    /\ \E response \in SuggestionResponses(hist.nsugg + 1) :
         LET state == disease_suggestion_node(st, response)
             route == loop_disease_suggestion(state)
         IN /\ hist' = [Reconciled(Visited(hist, "disease-suggestion")) EXCEPT
                           !.before = Some(st), !.suggested = IsSome(response),
                           !.nsugg = @ + 1,
                           !.suggs = IF IsSome(response) THEN Append(@, The(response)) ELSE @]
            /\ IF route \in {"continue", "disease-loop"}
               THEN Yield("disease-suggestion", state,
                          IF route = "continue" THEN "sort-disease" ELSE "process-diagnosis")
               ELSE Raise(state)
    /\ UNCHANGED <<db, files, loc, rival>>

\* graph.py:421-441  Diagnosis Processing
ProcessDiagnosis ==
    /\ pc = "process-diagnosis"
    /\ Yield("process-diagnosis", process_diagnosis_node(st), "disease-suggestion")
    /\ hist' = [Visited(hist, "process-diagnosis") EXCEPT
                   !.before = None, !.suggested = FALSE]
    /\ UNCHANGED <<db, files, loc, rival>>

\* graph.py:443-454  Sort
SortDisease ==
    /\ pc = "sort-disease"
    /\ Yield("sort-disease", sort_disease_node(st), "info-seek")
    /\ hist' = [Visited(hist, "sort-disease") EXCEPT
                   !.before = None, !.suggested = FALSE,
                   !.unsorted = st.medical_report.most_likely_disease]
    /\ UNCHANGED <<db, files, loc, rival>>

\* graph.py:469-536  Information-Seek
InformationSeekStage ==
    /\ pc = "info-seek"
    /\ \E response \in SeekResponses :
         \* the provider is not called past the fatigue limit
         /\ FatigueStop(st) => IsNone(response)
         /\ Yield("info-seek", information_seek_node(st, response), "interview")
    /\ hist' = Cleared(hist, "info-seek")
    /\ UNCHANGED <<db, files, loc, rival>>

\* graph.py:538-635  Interview Reply
Interview ==
    /\ pc = "interview"
    /\ \E response \in InterviewResponses :
         /\ Yield("interview", propose_message_node(st, response), "save")
         /\ hist' = [Cleared(hist, "interview") EXCEPT
                        !.reply = IF IsNone(response) THEN "failed" ELSE "answered",
                        !.hint = Hint(st)]
    /\ UNCHANGED <<db, files, loc, rival>>

\* __init__.py:151  await session_manager.save_session(session_id, final_state, user_id)
SaveSession ==
    /\ pc = "save"
    /\ \E user_id \in UserIds :
         /\ db' = save_session(db, st, user_id)
         /\ hist' = [hist EXCEPT !.caller = user_id]
    /\ pc' = "result"
    /\ rival' = [rival EXCEPT !.last = FALSE]
    /\ UNCHANGED <<files, st, events, loc>>

\* __init__.py:153-167  the terminal result event
Result ==
    /\ pc = "result"
    /\ events' = Append(events, ResultEvent(st))
    /\ pc' = "done"
    /\ UNCHANGED <<db, files, st, loc, hist, rival>>

Next ==
    \/ GetSession
    \/ Ingest
    \/ PreReportUpdate
    \/ ImageAnalysis
    \/ ProcessQuestions
    \/ DiseaseSuggestion
    \/ ProcessDiagnosis
    \/ SortDisease
    \/ InformationSeekStage
    \/ Interview
    \/ SaveSession
    \/ Result

Spec == Init /\ [][Next]_vars

\* the row one run leaves
StoredRow == The(ChatRuns(None, <<Visit(<<>>, 2)>>))

\* stored blobs _deserialize_state raises on: text that is not JSON, a
\* candidate whose probability is out of range, a question set without its list
CorruptRows ==
    {Some([StoredRow EXCEPT !.session_data.json = FALSE]),
     Some([StoredRow EXCEPT !.session_data.data.medical_report.most_likely_disease =
              << << <<"disease_name", "Flu">>, <<"match_reason", "reason">>,
                    <<"match_probability", MaxProbability + 1>> >> >>]),
     Some([StoredRow EXCEPT !.session_data.data.information_seek =
              Some(<< <<"items", <<"q1">> >> >>)])}

InitStore ==
    /\ db \in {None} \cup CorruptRows
    /\ InitRest
    /\ rival = NoRival

\* a run on a session that is unknown or whose stored blob does not parse
SpecStore == InitStore /\ [][Next]_vars

----------------------------------------------------------------------------
(* Sessions that hold an image.  An earlier call stored one image, which   *)
(* Image Analysis described and titled, or failed to describe.             *)

Described ==
    [vision |-> Some([image_title |-> "Rash", image_description |-> <<"description">>,
                      diseases |-> "", has_skin |-> FALSE]),
     medai |-> FALSE, rewrite |-> FALSE]
VisionFailed == [vision |-> None, medai |-> FALSE, rewrite |-> FALSE]

\* a message with one image, which the extraction provider registers
Photo(outcome) ==
    [Visit(<<>>, 2) EXCEPT
        !.text = "here is a photo",
        !.new_images = <<UploadPaths[1]>>,
        !.extraction = Some([evidence_list |-> None,
                             image_list |-> Some(<<[image_title |-> "photo",
                                                    image_path |-> UploadPaths[1]]>>)]),
        !.images = <<outcome>>]

ImagePasts == {<<Photo(Described)>>, <<Photo(VisionFailed)>>}

InitImages ==
    /\ db \in {ChatRuns(None, past) : past \in ImagePasts}
    /\ files = {UploadDir, UploadPaths[1]}
    /\ st = FreshState
    /\ pc = "idle"
    /\ events = <<>>
    /\ loc = NoLocals
    /\ hist = NoHistory
    /\ rival = NoRival

SpecImages == InitImages /\ [][Next]_vars

----------------------------------------------------------------------------
(* A session with a full question queue: an earlier call left the five      *)
(* questions Information-Seek keeps at most.                                *)

FullQueueRow == The(ChatRuns(None, <<Visit(<<>>, QuestionTrim)>>))

InitQueue ==
    /\ db = Some(FullQueueRow)
    /\ InitRest
    /\ rival = NoRival

SpecQueue == InitQueue /\ [][Next]_vars

----------------------------------------------------------------------------
(* Two calls on one session id.  The second call has read the stored row   *)
(* (__init__.py:25) when the followed one starts; it runs its graph on     *)
(* that state and writes at any moment after the followed call has read.   *)

RivalText == "rival message"

\* the second call answers both pending questions and reports a cough, or
\* only greets
RivalScripts ==
    {[Visit(Yes(2), 2) EXCEPT
         !.text = RivalText,
         !.extraction = Some([evidence_list |-> Some(<<[evidence_title |-> "Cough",
                                                        evidence_value |-> <<"Present">>]>>),
                              image_list |-> None]),
         !.user_id = Some("alice")],
     [Greeting EXCEPT !.text = RivalText, !.user_id = None]}

\* __init__.py:25-148  the second call, its graph run on the row it read
Rivals ==
    {[pc |-> "loaded", text |-> script.text, final |-> Some(final_state(Some(StoredRow), script)),
      user_id |-> script.user_id, last |-> FALSE] : script \in RivalScripts}

\* __init__.py:151  the save of the second call
RivalSave ==
    /\ rival.pc = "loaded"
    /\ pc # "idle"
    /\ db' = save_session(db, The(rival.final), rival.user_id)
    /\ rival' = [rival EXCEPT !.pc = "saved", !.last = TRUE]
    /\ UNCHANGED <<files, st, pc, events, loc, hist>>

InitRace ==
    /\ db = Some(StoredRow)
    /\ InitRest
    /\ rival \in Rivals

NextRace == Next \/ RivalSave

SpecRace == InitRace /\ [][NextRace]_vars

----------------------------------------------------------------------------
(* A GET /session or GET /report/generate request on the session of the    *)
(* followed call.  The handler reads the row and writes the state it read  *)
(* back with the identity of its caller; both are awaited, so the steps of *)
(* the followed call may come between them.                                 *)

\* deps.py:9-38  get_current_user returns the name of a known user
HandlerUsers == {Some("alice"), Some("bob")}

HandlerIdle == [NoRival EXCEPT !.pc = "idle"]

\* chat.py:29, report.py:24  state = await session_manager.get_session(x_session_id)
HandlerLoad ==
    /\ rival.pc = "idle"
    /\ \E current_user \in HandlerUsers :
         rival' = [rival EXCEPT !.pc = "loaded", !.final = Some(get_session(db)),
                                !.user_id = current_user]
    /\ UNCHANGED <<db, files, st, pc, events, loc, hist>>

\* chat.py:31, report.py:26  await session_manager.save_session(x_session_id, state, user_id=current_user)
HandlerSave ==
    /\ rival.pc = "loaded"
    /\ db' = save_session(db, The(rival.final), rival.user_id)
    /\ rival' = [rival EXCEPT !.pc = "saved", !.last = TRUE]
    /\ UNCHANGED <<files, st, pc, events, loc, hist>>

InitHandler ==
    /\ db = Some(StoredRow)
    /\ InitRest
    /\ rival = HandlerIdle

NextHandler == Next \/ HandlerLoad \/ HandlerSave

SpecHandler == InitHandler /\ [][NextHandler]_vars

----------------------------------------------------------------------------
(* Properties *)

Ended == pc \in {"done", "failed"}
AfterSort == pc = "info-seek" /\ hist.node = "sort-disease"
Candidates == st.medical_report.most_likely_disease

\* C1: every run that entered the pipeline and has ended executed the
\* Interview Reply stage (propose_message_node) as its last stage
C1_InterviewAlwaysReached ==
    (Ended /\ hist.node # "") => hist.node = "interview"

IsTerminal(e) == e.type \in {"result", "error"}
TerminalCount == Cardinality({i \in 1..Len(events) : IsTerminal(events[i])})

\* C2: a run that has ended emitted exactly one terminal event (result or
\* error, so never both) and it is the last event; a run still going has
\* emitted none
C2_OneTerminalEvent ==
    IF Ended
    THEN TerminalCount = 1 /\ IsTerminal(Last(events))
    ELSE TerminalCount = 0

C2_Witness ==
    /\ pc = "failed" /\ hist.node = "disease-suggestion"
    /\ Len(events) > 3 /\ Last(events).type = "error"

\* C3: the state at the end of a pipeline run is read back from its
\* serialization unchanged, field by field
C3_RoundTrip ==
    pc \in {"save", "result", "done"} =>
        LET loaded == DeserializeState(SerializeState(st))
        IN \A f \in DOMAIN st : loaded[f] = st[f]

C3_Witness ==
    /\ pc = "save"
    /\ Len(st.messages) >= 4
    /\ Last(st.messages).cls = "AIMessage"
    /\ Last(st.messages).additional_kwargs # <<>>
    /\ Len(Candidates) >= 2
    /\ IsSome(st.information_seek)
    /\ st.medical_report.evidences # <<>>

\* C4: disease_suggestion_node is called at most 10 times in a run
C4_AtMostTenSuggestions == hist.nsugg <= 10

C4_Witness ==
    /\ pc = "sort-disease"
    /\ Len(st.disease_buffer) > BufferCap
    /\ hist.nsugg = 6

StoredCount(row) == IF IsNone(row) THEN 0 ELSE The(row).session_data.data.question_count

\* C6: no step lowers question_count, neither in the state of the run nor in
\* the stored session
C6_CountNeverDecreases ==
    [][/\ st'.question_count >= st.question_count
       /\ StoredCount(db') >= StoredCount(db)]_vars

C6_Witness ==
    /\ pc = "done"
    /\ StoredCount(db) > FatigueLimit
    /\ st.question_count = StoredCount(db)

\* C7: when Information-Seek has run with question_count at 20 or more, no
\* question is pending
C7_FatigueStopsQuestions ==
    (pc = "interview" /\ hist.node = "info-seek" /\ st.question_count >= 20)
        => NoQuestions(st)

Count(list, x) == Cardinality({i \in 1..Len(list) : list[i] = x})
SameItems(a, b) ==
    /\ Len(a) = Len(b)
    /\ \A x \in Range(a) \cup Range(b) : Count(a, x) = Count(b, x)
NonIncreasing(list) ==
    \A i \in 1..(Len(list) - 1) : list[i].match_probability >= list[i + 1].match_probability
WithProbability(list, p) == SelectSeq(list, LAMBDA d : d.match_probability = p)
TiesKeepOrder(before, after) ==
    \A p \in {before[i].match_probability : i \in 1..Len(before)} :
        WithProbability(after, p) = WithProbability(before, p)

\* C8: after Sort the candidate list is a permutation of the list before it,
\* non-increasing in probability, candidates of equal probability in the
\* order they had
C8_SortStableDescending ==
    AfterSort =>
        /\ SameItems(hist.unsorted, Candidates)
        /\ NonIncreasing(Candidates)
        /\ TiesKeepOrder(hist.unsorted, Candidates)

C8_Witness ==
    /\ AfterSort
    /\ Len(Candidates) >= 3
    /\ Candidates # hist.unsorted
    /\ \E i \in 1..(Len(Candidates) - 1) :
           Candidates[i].match_probability = Candidates[i + 1].match_probability

GoodSuggestion(s) ==
    /\ IsSome(s.disease)
    /\ The(s.disease).disease_name # ""
    /\ The(s.disease).match_probability >= MinProbability

\* C9: no suggestion is asked for after one that is null, unnamed or below
\* 65; and when the provider gave k-1 suggestions with a name and a
\* probability of at least 65 and then a k-th that is null, unnamed or below
\* 65 (k >= 2), the loop made exactly k calls and the list after Sort holds
\* exactly the first k-1 suggestions, in descending order of probability
C9_LoopKeepsFirstSuggestions ==
    LET k == Len(hist.suggs)
        first == [i \in 1..(k - 1) |-> The(hist.suggs[i].disease)]
    IN /\ \A i \in 1..(k - 1) : GoodSuggestion(hist.suggs[i])
       /\ (AfterSort /\ k >= 2 /\ ~GoodSuggestion(hist.suggs[k])) =>
              /\ hist.nsugg = k
              /\ SameItems(first, Candidates)
              /\ NonIncreasing(Candidates)

C9_Witness ==
    /\ AfterSort
    /\ Len(hist.suggs) = 3
    /\ ~GoodSuggestion(hist.suggs[3])
    /\ get_session(db).medical_report.most_likely_disease # <<>>
    /\ Candidates[1].match_probability > Candidates[2].match_probability

\* C10: applying the evidence list the extraction returned a second time
\* leaves the evidences map as the first application left it
C10_UpsertIdempotent ==
    (pc = "image-analysis" /\ hist.node = "pre-report-update" /\ IsSome(hist.evidence_list)) =>
        ApplyEvidenceList(st.medical_report.evidences, The(hist.evidence_list))
            = st.medical_report.evidences

C10_Witness ==
    /\ pc = "image-analysis" /\ hist.node = "pre-report-update"
    /\ IsSome(hist.evidence_list)
    /\ Len(The(hist.evidence_list)) = 2
    /\ The(hist.evidence_list)[1].evidence_title = The(hist.evidence_list)[2].evidence_title
    /\ The(hist.evidence_list)[1].evidence_value # The(hist.evidence_list)[2].evidence_value
    /\ get_session(db).medical_report.evidences # <<>>

\* the run emitted a report_update event
HasReportUpdate == \E i \in 1..Len(events) : events[i].type = "report_update"

\* Evidence Extraction has just returned after applying an evidence upsert
ExtractionUpserted ==
    /\ pc = "image-analysis"
    /\ hist.node = "pre-report-update"
    /\ IsSome(hist.evidence_list)
    /\ The(hist.evidence_list) # <<>>

\* C11: an ended run emitted a report_update event exactly when Evidence
\* Extraction or Image Analysis returned with the dirty flag set; when Evidence
\* Extraction applied an evidence upsert it returns with the flag set, the map
\* holds the upserted titles and a report_update event carries that map
C11_ReportUpdateIffDirty ==
    /\ Ended => (HasReportUpdate <=> hist.dirty)
    /\ ExtractionUpserted =>
           /\ st.report_updated
           /\ \A k \in 1..Len(The(hist.evidence_list)) :
                  DictHas(st.medical_report.evidences,
                          The(hist.evidence_list)[k].evidence_title)
           /\ Last(The(hist.evidence_list)).evidence_value =
                  DictGet(st.medical_report.evidences,
                          Last(The(hist.evidence_list)).evidence_title)
           /\ \E i \in 1..Len(events) :
                  /\ events[i].type = "report_update"
                  /\ events[i].payload.evidences = st.medical_report.evidences

C11_Witness ==
    /\ ExtractionUpserted
    /\ HasReportUpdate
    /\ DictGet(st.medical_report.evidences, "Fever") = <<"Present; 3 days">>

\* the run emitted its result event
HasResult == \E i \in 1..Len(events) : events[i].type = "result"

\* C12: the record is written only by a run that succeeds, and before its
\* result event: until the save the stored row is the row the run loaded (so
\* it is after an error event too), and from the save on it holds the final
\* state of the run
C12_SaveOnlyOnSuccess ==
    /\ pc \notin {"idle", "result", "done"} => db = hist.stored
    /\ pc \in {"result", "done"} =>
           /\ IsSome(db)
           /\ The(db).session_data = SerializeState(st)
    /\ HasResult => pc = "done"
    /\ pc = "result" => ~HasResult

C12_Witness ==
    /\ pc = "failed"
    /\ IsSome(db)
    /\ db = hist.stored
    /\ hist.dirty
    /\ st.medical_report # get_session(db).medical_report

\* the turns of the stored record
StoredMessages == get_session(db).messages

\* both calls have written
BothSaved == rival.pc = "saved" /\ pc \in {"result", "done"}

\* a turn of the stored record has this text as its first part
StoredTurn(text) ==
    \E i \in 1..Len(StoredMessages) :
        /\ StoredMessages[i].content # <<>>
        /\ StoredMessages[i].content[1] = text

\* C13: two calls read the same row before either writes; once both have
\* written, the record is the final state of the call that wrote last and
\* holds no turn of the call that wrote first
C13_LastWriterWins ==
    BothSaved =>
        IF rival.last
        THEN /\ The(db).session_data = SerializeState(The(rival.final))
             /\ ~StoredTurn(UserText)
        ELSE /\ The(db).session_data = SerializeState(st)
             /\ ~StoredTurn(RivalText)

\* the followed call wrote first: its answers to the pending questions, its
\* evidence and its turns are lost
C13_Witness ==
    /\ BothSaved
    /\ rival.last
    /\ st.question_count > get_session(db).question_count
    /\ st.medical_report.evidences # get_session(db).medical_report.evidences
    /\ StoredTurn(RivalText)

RECURSIVE UserTurns(_)
\* how many turns of a list are the user's turn of the followed call
UserTurns(messages) ==
    IF messages = <<>> THEN 0
    ELSE UserTurns(Front(messages)) +
         (IF /\ Last(messages).cls = "HumanMessage"
             /\ Last(messages).content # <<>>
             /\ Last(messages).content[1] = UserText
          THEN 1 ELSE 0)

\* the turns get_session returned to the followed call
LoadedMessages == get_session(hist.stored).messages

\* the followed call is past Interview Reply
Replied == "interview" \in hist.stages

\* C14: the user's turn is appended exactly once: from Evidence Extraction
\* on when its provider answered, else by Interview Reply; it is the turn
\* next to the loaded ones, never twice in the list, and once Interview
\* Reply has run the slot is empty
C14_UserTurnOnce ==
    /\ UserTurns(st.messages) <= 1
    /\ "pre-report-update" \in hist.stages /\ hist.extracted =>
           /\ IsNone(st.new_user_message)
           /\ UserTurns(st.messages) = 1
           /\ Len(st.messages) > Len(LoadedMessages)
           /\ UserTurns(<<st.messages[Len(LoadedMessages) + 1]>>) = 1
    /\ "pre-report-update" \in hist.stages /\ ~hist.extracted /\ ~Replied =>
           /\ IsSome(st.new_user_message)
           /\ st.messages = LoadedMessages
    /\ Replied =>
           /\ IsNone(st.new_user_message)
           /\ UserTurns(st.messages) = 1
           /\ UserTurns(<<st.messages[Len(LoadedMessages) + 1]>>) = 1

\* the extraction provider failed and Interview Reply appended the turn
C14_Witness ==
    /\ pc = "done"
    /\ ~hist.extracted
    /\ LoadedMessages # <<>>
    /\ UserTurns(st.messages) = 1
    /\ IsNone(st.new_user_message)

\* the image references of a report, title by title
Images == st.medical_report.images

\* C15: when Evidence Extraction has returned, no image reference is stored
\* under two different titles
C15_NoReferenceTwice ==
    pc = "image-analysis" /\ hist.node = "pre-report-update" =>
        \A i, j \in 1..Len(Images) : Images[i][2] = Images[j][2] => i = j

\* the provider call of Interview Reply failed
ReplyFailed == hist.reply = "failed"

\* C16: when the provider call of Interview Reply fails, the stage appends
\* one assistant turn with the fixed apology after the user's turn, the call
\* goes on to the save, and it ends with a result event carrying that text
C16_FallbackReply ==
    ReplyFailed =>
        /\ pc \in {"save", "result", "done"}
        /\ Len(st.messages) = Len(LoadedMessages) + 2
        /\ UserTurns(<<st.messages[Len(st.messages) - 1]>>) = 1
        /\ Last(st.messages) =
               [cls |-> "AIMessage",
                content |-> <<"I have encountered an error! Please try again later.">>,
                additional_kwargs |-> <<>>]
        /\ \A i \in 1..Len(events) : events[i].type # "error"
        /\ pc = "done" =>
               /\ Last(events).type = "result"
               /\ Last(events).payload.message =
                      <<"I have encountered an error! Please try again later.">>

C16_Witness ==
    /\ ReplyFailed
    /\ pc = "done"
    /\ hist.dirty
    /\ Last(events).type = "result"

\* the positions of the diagnosis_update events
DiagnosisUpdates == {i \in 1..Len(events) : events[i].type = "diagnosis_update"}

\* the candidates the latest diagnosis_update event lists, in its order
Listed ==
    LET i == CHOOSE i \in DiagnosisUpdates : \A j \in DiagnosisUpdates : j <= i
        diseases == events[i].payload.diseases
    IN [k \in 1..Len(diseases) |->
           Disease(diseases[k].name, diseases[k].reason, diseases[k].likelihood)]

\* C17: when Diagnosis Processing or Sort has returned, one diagnosis_update
\* event has been emitted for each fold and for the sort, and the latest one
\* lists the candidate list as it is, in the same order
C17_DiagnosisUpdateMirrorsList ==
    hist.node \in {"process-diagnosis", "sort-disease"} =>
        /\ Cardinality(DiagnosisUpdates) = hist.nsugg
        /\ Listed = Candidates

\* the turn list of a stored row, as stored
RawTurns(row) == IF IsNone(row) THEN <<>> ELSE The(row).session_data.data.messages

\* a list starts with another
IsPrefix(a, b) == Len(a) <= Len(b) /\ SubSeq(b, 1, Len(a)) = a

\* C18: the stored turn list only grows at its end: whenever the record
\* changes, the turn list stored before is a prefix of the one stored after,
\* every turn with its role, content and position
C18_TurnsAppendOnly == [][IsPrefix(RawTurns(db), RawTurns(db'))]_vars

\* a call has written a record that had turns
C18_Witness ==
    /\ pc = "done"
    /\ Len(RawTurns(hist.stored)) >= 4
    /\ Len(RawTurns(db)) = Len(RawTurns(hist.stored)) + 2
    /\ RawTurns(db)[Len(RawTurns(db))].type = "ai"
    /\ RawTurns(db)[Len(RawTurns(db)) - 1].type = "human"

\* graph.py:499  the reliability rule of the prompt of information_seek_node
ReliableTop == 85
ReliableOther == 60

\* the first candidate is above ReliableTop, no other is above ReliableOther
Reliable(diseases) ==
    /\ diseases # <<>>
    /\ diseases[1].match_probability > ReliableTop
    /\ \A i \in 2..Len(diseases) : diseases[i].match_probability <= ReliableOther

\* C19: when Information-Seek has returned on a reliable candidate list, the
\* session has no question
C19_ReliableMeansNoQuestions ==
    pc = "interview" /\ hist.node = "info-seek" /\ Reliable(Candidates) => NoQuestions(st)

\* the state get_session returned to the followed call
Loaded == get_session(hist.stored)

\* Image Analysis has returned and the flag was never set
NotDirty ==
    /\ "image-analysis" \in hist.stages
    /\ pc \notin {"image-analysis", "failed"}
    /\ ~hist.dirty

DiagnosisStages ==
    {"process-questions", "disease-suggestion", "process-diagnosis", "sort-disease",
     "info-seek"}

\* candidate list, question queue, fatigue counter and scratch buffer agree
SameDiagnosis(s, t) ==
    /\ s.medical_report.most_likely_disease = t.medical_report.most_likely_disease
    /\ s.information_seek = t.information_seek
    /\ s.question_count = t.question_count
    /\ s.disease_buffer = t.disease_buffer

\* C20: when Image Analysis returns with the flag unset the next stage is
\* Interview Reply; none of the stages between runs, and candidate list,
\* question queue, counter and buffer stay as loaded, in the state of the
\* call and in the record it writes
C20_NotDirtySkipsDiagnosis ==
    NotDirty =>
        /\ hist.node = "image-analysis" => pc = "interview"
        /\ hist.stages \cap DiagnosisStages = {}
        /\ \A i \in 1..Len(events) : events[i].type # "diagnosis_update"
        /\ SameDiagnosis(st, Loaded)
        /\ pc \in {"result", "done"} => SameDiagnosis(get_session(db), Loaded)

C20_Witness ==
    /\ NotDirty
    /\ pc = "done"
    /\ Candidates # <<>>
    /\ ~NoQuestions(st)
    /\ st.question_count >= FatigueLimit

\* Question Reconciliation has just returned
AfterReconciliation == hist.node = "process-questions" /\ pc # "process-questions"

\* the call is at or past Interview Reply and Information-Seek did not run
StraightToInterview ==
    /\ "process-questions" \in hist.stages
    /\ "info-seek" \notin hist.stages
    /\ pc \in {"interview", "save", "result", "done"}

\* C21: after Question Reconciliation the next stage is Interview Reply when
\* the queue holds a question and Diagnosis Suggestion when it is absent or
\* empty; a call routed to Interview Reply runs no diagnosis stage and keeps
\* the candidate list it loaded
C21_RouteAfterReconciliation ==
    /\ AfterReconciliation =>
           /\ pc = "interview" <=> ~NoQuestions(st)
           /\ pc = "disease-suggestion" <=> NoQuestions(st)
    /\ StraightToInterview =>
           /\ hist.stages \cap
                  {"disease-suggestion", "process-diagnosis", "sort-disease"} = {}
           /\ \A i \in 1..Len(events) : events[i].type # "diagnosis_update"
           /\ Candidates = Loaded.medical_report.most_likely_disease
           /\ pc \in {"result", "done"} =>
                  get_session(db).medical_report.most_likely_disease =
                      Loaded.medical_report.most_likely_disease

\* a call answered one of two pending questions and went to Interview Reply
C21_Witness ==
    /\ StraightToInterview
    /\ pc = "done"
    /\ Candidates # <<>>
    /\ st.question_count = Loaded.question_count + 1
    /\ ~NoQuestions(st)

\* the provider call of the Diagnosis Suggestion that has just run failed
SuggestionFailed ==
    hist.node = "disease-suggestion" /\ IsSome(hist.before) /\ ~hist.suggested

\* C22: when the provider call of Diagnosis Suggestion fails, the stage leaves
\* the scratch buffer and the candidate list as it found them and the call goes
\* on to the next stage
C22_SuggestionFailureIsNoOp ==
    SuggestionFailed =>
        /\ st.disease_buffer = The(hist.before).disease_buffer
        /\ Candidates = The(hist.before).medical_report.most_likely_disease
        /\ pc # "failed"
        /\ \A i \in 1..Len(events) : events[i].type # "error"

\* the questions Question Reconciliation found
Queue0 == IF IsNone(hist.queue0) THEN <<>> ELSE The(hist.queue0).questions

\* the questions of the session
Queue == IF IsNone(st.information_seek) THEN <<>> ELSE The(st.information_seek).questions

\* the oracle calls of Question Reconciliation with a given answer
Asked(answer) == {i \in 1..Len(hist.asked) : hist.asked[i][2] = answer}

\* C23: Question Reconciliation makes at most one oracle call for each
\* question it found; after a failed call it has returned, the question is
\* still queued and the counter has not grown for it
C23_OneCallPerQuestion ==
    hist.node = "process-questions" =>
        /\ Len(hist.asked) <= Len(Queue0)
        /\ \A i, j \in 1..Len(hist.asked) : hist.asked[i][1] = hist.asked[j][1] => i = j
        /\ Asked("fail") # {} =>
               /\ pc # "process-questions"
               /\ Queue # <<>>
               /\ Last(Queue) = hist.asked[Len(hist.asked)][1]
               /\ st.question_count = hist.count0 + Cardinality(Asked("yes"))

RECURSIVE Answers(_)
\* the oracle calls that got an answer, in order
Answers(asked) ==
    IF asked = <<>> THEN <<>>
    ELSE IF Last(asked)[2] = "fail" THEN Answers(Front(asked))
    ELSE Append(Answers(Front(asked)), Last(asked))

\* how many questions the pass judged answered
Answered == Cardinality(Asked("yes"))

\* C24: a pass of Question Reconciliation examines the questions from the
\* back of the queue; the counter grows by the number of questions judged
\* answered; once one is answered, the queue is the queue found without the
\* answered ones at its end, also when the pass stops at an unanswered one
C24_AnsweredSuffixRemoved ==
    hist.node = "process-questions" =>
        /\ \A k \in 1..Len(Answers(hist.asked)) :
               /\ k <= Len(Queue0)
               /\ Answers(hist.asked)[k][1] = Queue0[Len(Queue0) - k + 1]
               /\ k < Len(Answers(hist.asked)) => Answers(hist.asked)[k][2] = "yes"
        /\ st.question_count = hist.count0 + Answered
        /\ Answered >= 1 => Queue = Take(Queue0, Len(Queue0) - Answered)

\* the pass answered two questions and stopped at the third from the back
C24_Witness ==
    /\ AfterReconciliation
    /\ Len(Queue0) = QuestionTrim
    /\ Answered = 2
    /\ Asked("no") # {}
    /\ Queue = Take(Queue0, QuestionTrim - 2)
    /\ pc = "interview"

\* the first question examined was judged unanswered
BackUnanswered == Answers(hist.asked) # <<>> /\ Answers(hist.asked)[1][2] = "no"

\* the pass emptied a queue whose questions were not all answered
Discarded == Queue0 # <<>> /\ Queue = <<>> /\ Answered < Len(Queue0)

\* C25: Question Reconciliation is entered with the flag set; it discards the
\* queue exactly when the first question it examines, the last of the queue,
\* is judged unanswered, and the call then goes to Diagnosis Suggestion; a
\* pass that answered a question and stopped at an unanswered one keeps the
\* rest of the queue
C25_StaleQueueDiscarded ==
    /\ hist.node = "process-questions" => hist.dirty_in /\ st.report_updated
    /\ AfterReconciliation =>
           /\ Discarded <=> BackUnanswered
           /\ BackUnanswered =>
                  /\ Queue = <<>>
                  /\ st.question_count = hist.count0
                  /\ pc = "disease-suggestion"
           /\ Answered >= 1 /\ Asked("no") # {} =>
                  /\ Queue # <<>>
                  /\ pc = "interview"

C25_Witness ==
    /\ AfterReconciliation
    /\ BackUnanswered
    /\ Len(Queue0) = QuestionTrim
    /\ Discarded
    /\ pc = "disease-suggestion"

\* the image references of a dict of images
References(images) == {images[i][2] : i \in 1..Len(images)}

\* Image Analysis has returned
AfterImageAnalysis == hist.node = "image-analysis" /\ pc \notin {"image-analysis", "failed"}

\* C26: Image Analysis changes titles only: when it has returned, images and
\* images_analyses have the same titles, as many images are stored as before
\* and their references are the references stored before
C26_TitlesOnly ==
    AfterImageAnalysis =>
        /\ Range(DictKeys(Images)) = Range(DictKeys(st.medical_report.images_analyses))
        /\ Len(Images) = Len(hist.images0)
        /\ References(Images) = References(hist.images0)

\* the analysis text stored for a title is empty: the next call analyses the image
Pending(report, image_name) ==
    /\ DictHas(report.images, image_name)
    /\ DictHas(report.images_analyses, image_name)
    /\ DictGet(report.images_analyses, image_name) = <<>>
    /\ NeedsAnalysis(report, image_name)

\* C27: an image that cannot be read, or whose vision call fails, does not end
\* the call: Image Analysis returns, the analysis text of that image is empty,
\* and the record the call writes holds it empty, so the next call analyses it
C27_ImageFailureTolerated ==
    hist.unread \cup hist.unseen # {} =>
        /\ hist.node = "image-analysis" => pc # "failed"
        /\ AfterImageAnalysis =>
               \A image_name \in hist.unread \cup hist.unseen :
                   Pending(st.medical_report, image_name)
        /\ pc \in {"result", "done"} =>
               \A image_name \in hist.unread \cup hist.unseen :
                   Pending(get_session(db).medical_report, image_name)

\* the owner of a stored row, None without a row
Owner(row) == IF IsNone(row) THEN None ELSE The(row).user_id

\* C28: after the save the owner of the record is the caller identity when one
\* was given, whoever owned the record, and the owner it had when none was
\* given; the blob is the serialization of the state that was saved
C28_OwnerOverwrittenWhenKnown ==
    pc \in {"result", "done"} =>
        /\ IsSome(hist.caller) => Owner(db) = hist.caller
        /\ IsNone(hist.caller) => Owner(db) = Owner(hist.stored)
        /\ The(db).session_data = SerializeState(st)
        /\ get_session(db) = [st EXCEPT !.new_user_message = None]

\* a record of one owner is saved under another identity
C28_Witness ==
    /\ pc = "done"
    /\ Owner(hist.stored) = Some("alice")
    /\ hist.caller = Some("bob")
    /\ Owner(db) = Some("bob")
    /\ The(db).session_data # The(hist.stored).session_data

\* C29: with questions pending, the hint Interview Reply gives the provider is
\* the first question of the queue, the order Information-Seek returned with
\* the most impactful question first, and it is the question the next
\* Question Reconciliation examines first, the last of the queue
C29_HintIsFirstQuestion ==
    Replied /\ Queue # <<>> =>
        /\ hist.hint = Queue[1]
        /\ hist.hint = Last(Queue)

\* the question set of a stored row, as stored: None or the list
StoredQuestions(row) ==
    LET info_seek_data == The(row).session_data.data.information_seek
    IN IF IsNone(info_seek_data) THEN None
       ELSE Some(DictGet(The(info_seek_data), "questions"))

\* C30: every record a call has written holds no question set, or one of one
\* to QuestionTrim questions
C30_StoredQuestionsBounded ==
    IsSome(db) =>
        \/ IsNone(StoredQuestions(db))
        \/ /\ Len(The(StoredQuestions(db))) >= 1
           /\ Len(The(StoredQuestions(db))) <= QuestionTrim

\* the provider returned more questions than are kept and the call has saved
C30_Witness ==
    /\ pc = "done"
    /\ "info-seek" \in hist.stages
    /\ Len(Queue) = QuestionTrim
    /\ Loaded.information_seek # st.information_seek
    /\ IsSome(StoredQuestions(db))
    /\ Len(The(StoredQuestions(db))) = QuestionTrim

\* C31: the scratch buffer is empty in every record a call has written and
\* whenever the diagnosis loop is entered from Question Reconciliation; in the
\* loop the buffer holds two messages after a fold exactly when the fold was
\* the first of the loop
C31_BufferEmptyAtLoopEntry ==
    /\ IsSome(db) => The(db).session_data.data.disease_buffer = <<>>
    /\ AfterReconciliation /\ pc = "disease-suggestion" => st.disease_buffer = <<>>
    /\ hist.node = "process-diagnosis" =>
           (Len(st.disease_buffer) = 2 <=> hist.nsugg = 1)

\* a session that went through a diagnosis loop enters the loop again
C31_Witness ==
    /\ AfterReconciliation
    /\ pc = "disease-suggestion"
    /\ Candidates # <<>>
    /\ Len(Loaded.messages) >= 4
    /\ st.disease_buffer = <<>>

\* a diagnosis with a name and a probability from MinProbability to MaxProbability
Accepted(d) ==
    /\ d.disease_name # ""
    /\ d.match_probability >= MinProbability
    /\ d.match_probability <= MaxProbability

\* C32: every diagnosis of the candidate list, in the state of the call and in
\* the record, has a name and a probability of at least MinProbability and at
\* most MaxProbability
C32_CandidatesAccepted ==
    /\ \A i \in 1..Len(Candidates) : Accepted(Candidates[i])
    /\ IsSome(db) =>
           \A i \in 1..Len(get_session(db).medical_report.most_likely_disease) :
               Accepted(get_session(db).medical_report.most_likely_disease[i])

\* a suggestion at the limit has been folded, one below it ended the loop
C32_Witness ==
    /\ AfterSort
    /\ hist.nsugg = 2
    /\ Len(Candidates) = 1
    /\ Candidates[1].match_probability = MinProbability
    /\ IsSome(Last(hist.suggs).disease)
    /\ The(Last(hist.suggs).disease).match_probability < MinProbability

\* Sort has run after a loop whose first suggestion ended it
FirstSuggestionEnded ==
    /\ AfterSort
    /\ hist.nsugg = 1
    /\ Len(hist.suggs) = 1
    /\ StopCondition(st, hist.suggs[1])

\* C33: when the first suggestion of a loop ends it (null disease, empty name
\* or probability below MinProbability) Diagnosis Processing does not run and
\* the candidate list after Sort is the list the call loaded, the candidates
\* of the earlier run included
C33_NoFoldKeepsCandidates ==
    FirstSuggestionEnded =>
        /\ "process-diagnosis" \notin hist.stages
        /\ hist.unsorted = Loaded.medical_report.most_likely_disease
        /\ SameItems(Candidates, Loaded.medical_report.most_likely_disease)
        /\ Candidates = Loaded.medical_report.most_likely_disease

\* the loop ended at a first suggestion below the limit, with evidence that
\* changed in this call and a candidate of the earlier run still listed
C33_Witness ==
    /\ FirstSuggestionEnded
    /\ IsSome(hist.suggs[1].disease)
    /\ The(hist.suggs[1].disease).match_probability < MinProbability
    /\ Loaded.medical_report.most_likely_disease # <<>>
    /\ st.medical_report.evidences # Loaded.medical_report.evidences
    /\ Candidates # <<>>

\* the titles of the images of a report and of its analysis texts
SameTitles(report) ==
    Range(DictKeys(report.images)) = Range(DictKeys(report.images_analyses))

\* C34: at the end of every stage, and in the record, images and
\* images_analyses have the same titles: each image has an analysis text, which
\* may be empty, and no analysis text belongs to a title without an image
C34_SameTitles ==
    /\ SameTitles(st.medical_report)
    /\ IsSome(db) => SameTitles(get_session(db).medical_report)

\* Image Analysis has returned after a retitle onto the title of another image
C34_Witness ==
    /\ AfterImageAnalysis
    /\ Len(Images) < Len(hist.images0)
    /\ Images # <<>>
    /\ SameTitles(st.medical_report)

\* the message of the result event of the followed call
ResultMessage == Last(events).payload.message

\* C35: the message of the result event is the content of an assistant turn
\* that Interview Reply appended in this call, after the loaded turns and the
\* user's turn; it is not the user's turn nor a loaded turn
C35_ResultIsOwnReply ==
    HasResult =>
        /\ Len(st.messages) = Len(LoadedMessages) + 2
        /\ Last(st.messages).cls = "AIMessage"
        /\ ResultMessage = Last(st.messages).content
        /\ st.messages[Len(st.messages) - 1].cls = "HumanMessage"

\* the same, for the calls whose provider returned a reply message or failed
C35_ResultIsOwnReplyUnlessEmpty ==
    HasResult /\ Len(st.messages) = Len(LoadedMessages) + 2 =>
        /\ Last(st.messages).cls = "AIMessage"
        /\ ResultMessage = Last(st.messages).content
        /\ st.messages[Len(st.messages) - 1].cls = "HumanMessage"

\* a result event that carries the user's own turn
C35_UserTurnEchoed ==
    /\ HasResult
    /\ Len(st.messages) = Len(LoadedMessages) + 1
    /\ Last(st.messages).cls = "HumanMessage"
    /\ ResultMessage = Last(st.messages).content

\* the step is the save of the handler
HandlerSaves == rival.pc = "loaded" /\ rival'.pc = "saved"

\* C36: the save of the GET /session and GET /report/generate handlers leaves
\* the stored state as it was just before that save, also when the followed
\* call has saved its final state after the handler read the row
C36_HandlerKeepsState ==
    [][HandlerSaves => The(db').session_data = The(db).session_data]_vars

\* the same, for a handler whose read and save have no other save between them
C36_HandlerAloneKeepsState ==
    [][HandlerSaves /\ The(rival.final) = get_session(db)
           => The(db').session_data = The(db).session_data]_vars

\* the handler has written the state it read over the final state of the
\* followed call: the record holds no turn of that call
C36_RunOverwritten ==
    /\ rival.pc = "saved"
    /\ pc \in {"result", "done"}
    /\ The(db).session_data # SerializeState(st)
    /\ The(db).session_data = SerializeState(The(rival.final))
    /\ ~StoredTurn(UserText)

\* the likelihoods of a diagnosis_update event never rise along its list
Descending(e) ==
    \A k \in 1..(Len(e.payload.diseases) - 1) :
        e.payload.diseases[k].likelihood >= e.payload.diseases[k + 1].likelihood

\* C37: every diagnosis_update event of the call, after a fold or after Sort,
\* lists its diseases in non-increasing order of likelihood
C37_UpdatesDescending ==
    \A i \in DiagnosisUpdates : Descending(events[i])

\* a fold has left the candidate list in rising order and its event lists the
\* two candidates the other way round
C37_Witness ==
    /\ hist.node = "process-diagnosis"
    /\ Len(Candidates) = 2
    /\ Candidates[1].match_probability < Candidates[2].match_probability
    /\ DiagnosisUpdates # {}
    /\ Len(Listed) = 2
    /\ Listed[1] = Candidates[2]
    /\ Listed[2] = Candidates[1]

====
